---------------------------- MODULE Spec2Model ----------------------------
(***************************************************************************)
(* The evaluation harness of workshop_aluminium_alloys.ipynb:              *)
(* cross_validation, calc_R2s and make_r2_plot over the record table, the  *)
(* resampling strategies they iterate (LeaveOneOut, KFold), and the cells  *)
(* that derive the temper columns.                                         *)
(*                                                                         *)
(* Rows are addressed as in the notebook: positions 0..N-1, row labels     *)
(* (the DataFrame index) looked up by .loc.  A fitted forest and its       *)
(* predictions are kept as terms: a prediction records the rows the forest *)
(* was fitted on, the seed and the row it was asked about.                 *)
(***************************************************************************)
EXTENDS Integers, Sequences, FiniteSets, TLC

\* ------------------------------------------------------------- bounds --
\* Largest row count of a record table.
MaxN == 21
\* Largest row count and fold count handed to a splitter on its own.
MaxSamples == 9
MaxSplits == 10
\* Longest temper code the temper cells are run on.
MaxTemperLen == 4
\* Largest row count of a table whose row labels are not its positions.
MaxRelabelRows == 3

VARIABLES
    data,          \* the record table df: index, columns, TYS
    pc,            \* position of the notebook: idle, cv_loop, cv_returned, done, raised
    caller,        \* who called cross_validation: make_r2_plot or calc_R2s
    x_cols,        \* cross_validation's x_cols argument
    validator,     \* cross_validation's validator argument (the strategy name)
    random_forest, \* the RandomForestRegressor object of the call
    model_input,   \* get_dummies(data.loc[:, x_cols])
    fold,          \* number of partitions the split generator has emitted
    y_true,        \* list of per-partition ground truth
    y_pred,        \* list of per-partition predictions
    ret,           \* what the last call returned or raised
    r2_values,     \* calc_R2s' dictionary
    vi,            \* calc_R2s' position in validators.items()
    r2,            \* make_r2_plot's r2
    calls,         \* the validator names cross_validation was called with, in order
    fits,          \* number of fit calls made by the current cross_validation call
    splitter,      \* a strategy object iterated on its own
    n_samples,     \* the number of samples it splits
    emitted        \* the (train_index, test_index) pairs its generator has emitted

vars == <<data, pc, caller, x_cols, validator, random_forest, model_input,
          fold, y_true, y_pred, ret, r2_values, vi, r2, calls, fits,
          splitter, n_samples, emitted>>

\* The variables of a cross_validation call and of its callers.
harness == <<caller, x_cols, validator, random_forest, model_input,
             y_true, y_pred, r2_values, vi, r2, calls, fits>>

\* The variables of a strategy iterated on its own.
standalone == <<splitter, n_samples, emitted>>

\* ------------------------------------------------------------ helpers --
Min(a, b) == IF a < b THEN a ELSE b

Range(s) == {s[i] : i \in DOMAIN s}

RECURSIVE ConcatenateReversed(_)
\* The arrays joined last first, as if each had been put in front.
ConcatenateReversed(ss) ==
    IF ss = <<>> THEN <<>> ELSE ConcatenateReversed(Tail(ss)) \o Head(ss)

RECURSIVE Concatenate(_)
\* np.concatenate over a list of arrays
Concatenate(ss) ==
    IF ss = <<>> THEN <<>> ELSE Head(ss) \o Concatenate(Tail(ss))

\* np.arange(n)
Arange(n) == [i \in 1..n |-> i - 1]


\* ------------------------------------------------- resampling strategies --
\* The strategy objects of VALIDATORS: LeaveOneOut() and KFold(n_splits=k).
LeaveOneOut == [kind |-> "LeaveOneOut", n_splits |-> 0]

KFold(k) == [kind |-> "KFold", n_splits |-> k]

\* KFold(n_splits=k) itself raises ValueError when k <= 1.
ConstructRaises(s) == s.kind = "KFold" /\ s.n_splits <= 1

\* split(X) without the check of the fold count.
SplitNeverRaises(s, n) == FALSE

\* The first next() of split(X) raises ValueError: KFold when n_splits is
\* greater than the number of samples, LeaveOneOut when there is at most one.
SplitRaises(s, n) ==
    IF s.kind = "KFold" THEN s.n_splits > n ELSE n <= 1

\* KFold without the remainder: every fold has n // k indices.
KFoldFoldsNoRemainder(n, k) ==
    [f \in 1..k |->
        [i \in 1..(n \div k) |-> (f - 1) * (n \div k) + i - 1]]

\* KFold's test folds: contiguous, in index order; the first n % k folds
\* have n // k + 1 indices, the others n // k.
KFoldFolds(n, k) ==
    [f \in 1..k |->
        LET j     == f - 1
            size  == (n \div k) + (IF j < n % k THEN 1 ELSE 0)
            start == j * (n \div k) + Min(j, n % k)
        IN  [i \in 1..size |-> start + i - 1]]

\* LeaveOneOut over range(1, n): the first row is never left out.
LeaveOneOutFoldsFromOne(n) == [f \in 1..(n - 1) |-> <<f>>]

\* LeaveOneOut's test folds: range(n), one index each.
LeaveOneOutFolds(n) == [f \in 1..n |-> <<f - 1>>]

\* The test folds a strategy emits over n samples, in emission order.
IterTestIndices(s, n) ==
    IF s.kind = "KFold" THEN KFoldFolds(n, s.n_splits) ELSE LeaveOneOutFolds(n)

\* The test rows are not masked out of the train rows.
TrainIndicesAll(n, test) == Arange(n)

\* indices[~test_mask]: every index that is not a test index, ascending.
TrainIndices(n, test) ==
    SelectSeq(Arange(n), LAMBDA i : i \notin Range(test))

\* split(X): the (train_index, test_index) pairs, in emission order.
Split(s, n) ==
    LET folds == IterTestIndices(s, n)
    IN  [f \in DOMAIN folds |-> <<TrainIndices(n, folds[f]), folds[f]>>]


\* --------------------------------------------------- temper derivations --
\* A temper code is a Python str, kept as the sequence of its characters:
\* "T6" is <<"T", "6">>, the empty string is <<>>.
Digits == {"0", "1", "2", "3", "4", "5", "6", "7", "8", "9"}

\* int(c) for a one-character string c that is a decimal digit.
DigitValue(c) ==
    CASE c = "0" -> 0 [] c = "1" -> 1 [] c = "2" -> 2 [] c = "3" -> 3
      [] c = "4" -> 4 [] c = "5" -> 5 [] c = "6" -> 6 [] c = "7" -> 7
      [] c = "8" -> 8 [] c = "9" -> 9

\* lambda x: x[:2] if x != "O" else x      (a slice never raises)
temper_truncated(x) ==
    IF x /= <<"O">> THEN SubSeq(x, 1, Min(2, Len(x))) ELSE x

\* lambda x: x[0]      raises IndexError on the empty string
temper_c0_raises(x) == Len(x) = 0

temper_c0(x) == <<x[1]>>

\* lambda x: int(x[1]) if len(x)>1 else 1      int() raises ValueError on a
\* character that is not a digit
temper_c1_raises(x) == Len(x) > 1 /\ x[2] \notin Digits

\* The default taken as 0 instead of 1.
temper_c1_default0(x) == IF Len(x) > 1 THEN DigitValue(x[2]) ELSE 0

temper_c1(x) == IF Len(x) > 1 THEN DigitValue(x[2]) ELSE 1

\* ------------------------------------------------------ the record table --
\* Column names of the notebook.
composition_cols == <<"Cu (%)", "Mg (%)">>

paper_x_cols == composition_cols \o <<"temper">>

trunc_x_cols == composition_cols \o <<"temper_truncated">>

split_x_cols == composition_cols \o <<"temper_c0", "temper_c1">>

y_col == "TYS"

\* The columns of the spreadsheet as read by read_excel.
LoadedColumns == Range(composition_cols) \cup {"alloy name", "temper", "TYS"}

\* read_excel: a table with a RangeIndex (row p is labelled p), the temper
\* column and the target column as given, no derived column yet.
ReadExcel(tempers, targets) ==
    [index            |-> Arange(Len(tempers)),
     columns          |-> LoadedColumns,
     temper           |-> tempers,
     temper_truncated |-> <<>>,
     temper_c0        |-> <<>>,
     temper_c1        |-> <<>>,
     TYS              |-> targets]

\* Number of rows of a table.
NRows(d) == Len(d.index)

\* Columns holding strings (dtype object), which get_dummies expands.
IsCategorical(c) == c \in {"temper", "temper_truncated", "temper_c0", "alloy name"}

\* The values of a categorical column of the table.
ColumnValues(d, c) ==
    CASE c = "temper"           -> d.temper
      [] c = "temper_truncated" -> d.temper_truncated
      [] c = "temper_c0"        -> d.temper_c0
      [] OTHER                  -> <<>>

\* A column selection that skips the names it does not find.
LocColumnsNeverRaises(d, cols) == FALSE

\* data.loc[:, x_cols] raises KeyError when a requested column is absent.
LocColumnsRaises(d, cols) == \E i \in DOMAIN cols : cols[i] \notin d.columns

\* pd.get_dummies(data.loc[:, x_cols]): a new table with the same index;
\* numeric columns pass through, a categorical column becomes one
\* indicator column "<col>_<value>" per distinct value observed in it.
GetDummies(d, cols) ==
    [index   |-> d.index,
     columns |-> {<<c>> : c \in {x \in Range(cols) : ~IsCategorical(x)}}
                 \cup UNION {{<<c, v>> : v \in Range(ColumnValues(d, c))} :
                             c \in {x \in Range(cols) : IsCategorical(x)}}]

\* .loc[labels] raises KeyError when a label is not in the index.
LocRaises(index, labels) == \E i \in DOMAIN labels : labels[i] \notin Range(index)

\* .loc[labels]: the positions (0-based) of the rows carrying the labels,
\* in the order of the labels.
Loc(index, labels) ==
    [i \in DOMAIN labels |->
        (CHOOSE p \in DOMAIN index : index[p] = labels[i]) - 1]

\* data.loc[labels, y_col]: the targets of the rows carrying the labels.
LocTargets(d, labels) ==
    LET rows == Loc(d.index, labels)
    IN  [i \in DOMAIN rows |-> d.TYS[rows[i] + 1]]


\* ------------------------------------------------------------ the model --
\* cross_validation's default random_state.
random_state == 1234

\* RandomForestRegressor(random_state=random_state): not fitted yet.
RandomForestRegressor(seed) ==
    [random_state |-> seed, fitted |-> FALSE, trained_X |-> <<>>, trained_y |-> <<>>]

\* fit(X, y) as with warm_start=True: what was fitted before is kept.
FitWarmStart(rf, X, y) ==
    [rf EXCEPT !.fitted = TRUE, !.trained_X = @ \o X, !.trained_y = @ \o y]

\* fit(X, y) with warm_start=False: the forest is grown anew from X and y;
\* whatever was fitted before is dropped.  X is given by its row positions.
Fit(rf, X, y) ==
    [rf EXCEPT !.fitted = TRUE, !.trained_X = X, !.trained_y = y]

\* fit raises ValueError on an empty training set.
FitRaises(X) == X = <<>>

\* predict(X): one prediction per row of X, in row order.  A prediction is
\* determined by the fitted forest (its training rows, targets and seed) and
\* by the row it is made for.
Predict(rf, X) ==
    [i \in DOMAIN X |->
        [trained_X |-> rf.trained_X, trained_y |-> rf.trained_y,
         random_state |-> rf.random_state, row |-> X[i]]]

\* r2_score(y_true, y_pred): determined by the two sequences.
R2Score(yt, yp) == [y_true |-> yt, y_pred |-> yp]

\* cross_validation's VALIDATORS dictionary.
VALIDATORS ==
    [v \in {"loocv", "5foldcv", "15foldcv", "20foldcv"} |->
        CASE v = "loocv"    -> LeaveOneOut
          [] v = "5foldcv"  -> KFold(5)
          [] v = "15foldcv" -> KFold(15)
          [] v = "20foldcv" -> KFold(20)]

\* The validators dictionary with the in-sample score filed under the
\* leave-one-out name.
validatorsMerged ==
    << <<"insample", "Leave One Out CV">>,
       <<"loocv",    "Leave One Out CV">>,
       <<"5foldcv",  "5 Fold CV">>,
       <<"15foldcv", "15 Fold CV">>,
       <<"20foldcv", "20 Fold CV">> >>

\* calc_R2s' validators dictionary, in insertion order (key, display name).
validators ==
    << <<"insample", "In Sample">>,
       <<"loocv",    "Leave One Out CV">>,
       <<"5foldcv",  "5 Fold CV">>,
       <<"15foldcv", "15 Fold CV">>,
       <<"20foldcv", "20 Fold CV">> >>

\* What a call returned (exc = "None") or the exception it raised.
Returned(yt, yp) == [exc |-> "None", y_true |-> yt, y_pred |-> yp]

Raised(e) == [exc |-> e, y_true |-> <<>>, y_pred |-> <<>>]

\* The empty dictionary.
EmptyDict == [k \in {} |-> 0]


\* --------------------------------------------------------------- inputs --
\* Well-formed temper codes of the data set, repeated down the rows.
SampleTempers ==
    << <<"T", "6">>, <<"O">>, <<"H", "1", "1", "2">>, <<"T", "6", "1", "4">> >>

\* The temper column of an n-row table.
TemperColumn(n) ==
    [i \in 1..n |-> SampleTempers[((i - 1) % Len(SampleTempers)) + 1]]

\* Target columns of an n-row table: distinct values, rising or falling.
TargetColumns(n) ==
    {[i \in 1..n |-> 100 + i], [i \in 1..n |-> 100 + (n - i)]}

\* The x_cols lists a call is made with.
XColsChoices ==
    {paper_x_cols, trunc_x_cols, split_x_cols, <<"nonexistent_col">>}

ValidatorNames == {"insample", "loocv", "5foldcv", "15foldcv", "20foldcv"}

\* ----------------------------------------------------------------- Init --
\* The notebook after the cells that load df and define the functions.
Init ==
    /\ \E n \in 1..MaxN : \E targets \in TargetColumns(n) :
          data = ReadExcel(TemperColumn(n), targets)
    /\ pc = "idle"
    /\ caller = "none"
    /\ x_cols = <<>>
    /\ validator = "none"
    /\ random_forest = RandomForestRegressor(random_state)
    /\ model_input = [index |-> <<>>, columns |-> {}]
    /\ fold = 0
    /\ y_true = <<>>
    /\ y_pred = <<>>
    /\ ret = Raised("None")
    /\ r2_values = EmptyDict
    /\ vi = 0
    /\ r2 = R2Score(<<>>, <<>>)
    /\ calls = <<>>
    /\ fits = 0
    /\ splitter = LeaveOneOut
    /\ n_samples = 0
    /\ emitted = <<>>

\* ------------------------------------------------------ cross_validation --
\* The call cross_validation(data, xc, y_col, validator=v) up to the for
\* loop: the forest is created, the x columns are selected and encoded
\* (KeyError on an absent column), and validator "insample" fits and
\* predicts on the whole table and returns.
CVEnter(xc, v) ==
    /\ x_cols' = xc
    /\ validator' = v
    /\ calls' = Append(calls, v)
    /\ fold' = 0
    /\ IF LocColumnsRaises(data, xc)
       THEN /\ random_forest' = RandomForestRegressor(random_state)
            /\ model_input' = [index |-> <<>>, columns |-> {}]
            /\ y_true' = <<>>
            /\ y_pred' = <<>>
            /\ fits' = 0
            /\ ret' = Raised("KeyError")
            /\ pc' = "raised"
       ELSE LET mi == GetDummies(data, xc)
                all == Arange(NRows(mi))
                rf == Fit(RandomForestRegressor(random_state), all, data.TYS)
            IN  /\ model_input' = mi
                /\ IF v = "insample"
                   THEN /\ y_true' = data.TYS
                        /\ random_forest' = rf
                        /\ y_pred' = Predict(rf, all)
                        /\ fits' = 1
                        /\ ret' = Returned(data.TYS, Predict(rf, all))
                        /\ pc' = "cv_returned"
                   ELSE /\ random_forest' = RandomForestRegressor(random_state)
                        /\ y_true' = <<>>
                        /\ y_pred' = <<>>
                        /\ fits' = 0
                        /\ ret' = Raised("None")
                        /\ pc' = "cv_loop"

\* The first next() of validator.split(model_input) raises ValueError; the
\* exception leaves cross_validation and its caller.
CVSplitRaise ==
    /\ pc = "cv_loop"
    /\ fold = 0
    /\ SplitRaises(VALIDATORS[validator], NRows(model_input))
    /\ ret' = Raised("ValueError")
    /\ pc' = "raised"
    /\ UNCHANGED <<data, caller, x_cols, validator, random_forest, model_input,
                   fold, y_true, y_pred, r2_values, vi, r2, calls, fits>>
    /\ UNCHANGED standalone

\* One iteration of the for loop: the next (train_index, test_index) pair,
\* the ground truth of the test rows, a fit on the train rows and the
\* predictions for the test rows.
CVIterate ==
    /\ pc = "cv_loop"
    /\ ~SplitRaises(VALIDATORS[validator], NRows(model_input))
    /\ fold < Len(Split(VALIDATORS[validator], NRows(model_input)))
    /\ LET pair        == Split(VALIDATORS[validator], NRows(model_input))[fold + 1]
           train_index == pair[1]
           test_index  == pair[2]
       IN  /\ fold' = fold + 1
           /\ IF \/ LocRaises(data.index, test_index)
                 \/ LocRaises(model_input.index, train_index)
                 \/ LocRaises(data.index, train_index)
              THEN /\ ret' = Raised("KeyError")
                   /\ pc' = "raised"
                   /\ UNCHANGED <<random_forest, y_true, y_pred, fits>>
              ELSE IF FitRaises(Loc(model_input.index, train_index))
              THEN /\ ret' = Raised("ValueError")
                   /\ pc' = "raised"
                   /\ y_true' = Append(y_true, LocTargets(data, test_index))
                   /\ UNCHANGED <<random_forest, y_pred, fits>>
              ELSE LET rf == Fit(random_forest,
                                 Loc(model_input.index, train_index),
                                 LocTargets(data, train_index))
                   IN  /\ y_true' = Append(y_true, LocTargets(data, test_index))
                       /\ random_forest' = rf
                       /\ y_pred' = Append(y_pred,
                              Predict(rf, Loc(model_input.index, test_index)))
                       /\ fits' = fits + 1
                       /\ UNCHANGED <<ret, pc>>
    /\ UNCHANGED <<data, caller, x_cols, validator, model_input,
                   r2_values, vi, r2, calls>>
    /\ UNCHANGED standalone

\* The generator is exhausted: return the concatenated lists.
CVReturn ==
    /\ pc = "cv_loop"
    /\ ~SplitRaises(VALIDATORS[validator], NRows(model_input))
    /\ fold = Len(Split(VALIDATORS[validator], NRows(model_input)))
    /\ ret' = Returned(Concatenate(y_true), Concatenate(y_pred))
    /\ pc' = "cv_returned"
    /\ UNCHANGED <<data, caller, x_cols, validator, random_forest, model_input,
                   fold, y_true, y_pred, r2_values, vi, r2, calls, fits>>
    /\ UNCHANGED standalone

\* ------------------------------------------------------------- callers --
\* make_r2_plot(df, xc, y_col, validator=v) calls cross_validation.
MakeR2Plot(xc, v) ==
    /\ pc = "idle"
    /\ caller' = "make_r2_plot"
    /\ CVEnter(xc, v)
    /\ UNCHANGED <<data, r2_values, vi, r2>>
    /\ UNCHANGED standalone

\* make_r2_plot after cross_validation returned: the score, then the plot.
PlotContinue ==
    /\ pc = "cv_returned"
    /\ caller = "make_r2_plot"
    /\ r2' = R2Score(ret.y_true, ret.y_pred)
    /\ pc' = "done"
    /\ UNCHANGED <<data, caller, x_cols, validator, random_forest, model_input,
                   fold, y_true, y_pred, ret, r2_values, vi, calls, fits>>
    /\ UNCHANGED standalone

\* calc_R2s(df, xc, y_col): the empty dictionary, then the first call of
\* cross_validation of the loop over validators.items().
CalcR2s(xc) ==
    /\ pc = "idle"
    /\ caller' = "calc_R2s"
    /\ r2_values' = EmptyDict
    /\ vi' = 1
    /\ CVEnter(xc, validators[1][1])
    /\ UNCHANGED <<data, r2>>
    /\ UNCHANGED standalone

\* calc_R2s after cross_validation returned: the score is stored under the
\* strategy's display name; then the next strategy's call, or the return.
CalcContinue ==
    /\ pc = "cv_returned"
    /\ caller = "calc_R2s"
    /\ r2_values' = (validators[vi][2] :> R2Score(ret.y_true, ret.y_pred)) @@ r2_values
    /\ IF vi < Len(validators)
       THEN /\ vi' = vi + 1
            /\ CVEnter(x_cols, validators[vi + 1][1])
       ELSE /\ pc' = "done"
            /\ UNCHANGED <<x_cols, validator, random_forest, model_input, fold,
                           y_true, y_pred, ret, vi, calls, fits>>
    /\ UNCHANGED <<data, caller, r2>>
    /\ UNCHANGED standalone


\* ------------------------------------------------------ the temper cells --
\* df["temper_truncated"] = df["temper"].apply(...): the lambda on every
\* row, stored as a new column.
TruncateCell ==
    /\ pc = "idle"
    /\ data' = [data EXCEPT
                  !.temper_truncated =
                      [i \in DOMAIN data.temper |-> temper_truncated(data.temper[i])],
                  !.columns = @ \cup {"temper_truncated"}]
    /\ ret' = Raised("None")
    /\ UNCHANGED <<pc, fold>>
    /\ UNCHANGED harness
    /\ UNCHANGED standalone

\* df["temper_c0"] = ...; df["temper_c1"] = ...: two statements of one
\* cell.  An exception raised by a lambda on some row aborts the statement
\* (no column is stored) and the cell; what an earlier statement stored
\* stays.
SplitCell ==
    /\ pc = "idle"
    /\ LET with_c0 ==
             [data EXCEPT
                !.temper_c0 = [i \in DOMAIN data.temper |-> temper_c0(data.temper[i])],
                !.columns = @ \cup {"temper_c0"}]
       IN  IF \E i \in DOMAIN data.temper : temper_c0_raises(data.temper[i])
           THEN /\ ret' = Raised("IndexError")
                /\ data' = data
           ELSE IF \E i \in DOMAIN data.temper : temper_c1_raises(data.temper[i])
           THEN /\ ret' = Raised("ValueError")
                /\ data' = with_c0
           ELSE /\ ret' = Raised("None")
                /\ data' =
                     [with_c0 EXCEPT
                        !.temper_c1 =
                            [i \in DOMAIN data.temper |-> temper_c1(data.temper[i])],
                        !.columns = @ \cup {"temper_c1"}]
    /\ UNCHANGED <<pc, fold>>
    /\ UNCHANGED harness
    /\ UNCHANGED standalone

\* ------------------------------------------------ the notebook as a whole --
Next ==
    \/ TruncateCell
    \/ SplitCell
    \/ \E xc \in XColsChoices : \E v \in ValidatorNames : MakeR2Plot(xc, v)
    \/ PlotContinue
    \/ \E xc \in XColsChoices : CalcR2s(xc)
    \/ CalcContinue
    \/ CVSplitRaise
    \/ CVIterate
    \/ CVReturn

Spec == Init /\ [][Next]_vars


\* --------------------------------------------- a strategy on its own --
\* The state every variable of the harness has while it is not used.
HarnessIdle ==
    /\ caller = "none"
    /\ x_cols = <<>>
    /\ validator = "none"
    /\ random_forest = RandomForestRegressor(random_state)
    /\ model_input = [index |-> <<>>, columns |-> {}]
    /\ y_true = <<>>
    /\ y_pred = <<>>
    /\ r2_values = EmptyDict
    /\ vi = 0
    /\ r2 = R2Score(<<>>, <<>>)
    /\ calls = <<>>
    /\ fits = 0

\* A strategy is about to be constructed and asked to split n samples.
InitSplit ==
    /\ \E n \in 1..MaxSamples :
         /\ n_samples = n
         /\ data = ReadExcel(TemperColumn(n), [i \in 1..n |-> 100 + i])
    /\ splitter \in {LeaveOneOut} \cup {KFold(k) : k \in 0..MaxSplits}
    /\ emitted = <<>>
    /\ pc = "new"
    /\ fold = 0
    /\ ret = Raised("None")
    /\ HarnessIdle

\* LeaveOneOut() or KFold(n_splits=k): the constructor, then split(X).
Construct ==
    /\ pc = "new"
    /\ IF ConstructRaises(splitter)
       THEN ret' = Raised("ValueError") /\ pc' = "raised"
       ELSE ret' = ret /\ pc' = "split"
    /\ UNCHANGED <<data, fold>>
    /\ UNCHANGED harness
    /\ UNCHANGED standalone

\* The first next() of the generator raises.
SplitNextRaise ==
    /\ pc = "split"
    /\ fold = 0
    /\ SplitRaises(splitter, n_samples)
    /\ ret' = Raised("ValueError")
    /\ pc' = "raised"
    /\ UNCHANGED <<data, fold>>
    /\ UNCHANGED harness
    /\ UNCHANGED standalone

\* next() of the generator yields the next pair.
SplitNext ==
    /\ pc = "split"
    /\ ~SplitRaises(splitter, n_samples)
    /\ fold < Len(Split(splitter, n_samples))
    /\ emitted' = Append(emitted, Split(splitter, n_samples)[fold + 1])
    /\ fold' = fold + 1
    /\ UNCHANGED <<data, pc, ret, splitter, n_samples>>
    /\ UNCHANGED harness

\* next() of the generator raises StopIteration: the for loop ends.
SplitStop ==
    /\ pc = "split"
    /\ ~SplitRaises(splitter, n_samples)
    /\ fold = Len(Split(splitter, n_samples))
    /\ pc' = "exhausted"
    /\ UNCHANGED <<data, fold, ret>>
    /\ UNCHANGED harness
    /\ UNCHANGED standalone

NextSplit == Construct \/ SplitNextRaise \/ SplitNext \/ SplitStop

SpecSplit == InitSplit /\ [][NextSplit]_vars

\* ------------------------------------- the temper cells on any code --
\* The characters temper codes are drawn from.
TemperAlphabet == {"T", "O", "H", "6", "1", "4"}

\* Every string over the alphabet up to the longest length, the empty
\* string included.
TemperCodes == UNION {[1..k -> TemperAlphabet] : k \in 0..MaxTemperLen}

\* df holds one record, whose temper is any code.
InitTemper ==
    /\ \E t \in TemperCodes : data = ReadExcel(<<t>>, <<101>>)
    /\ pc = "idle"
    /\ fold = 0
    /\ ret = Raised("None")
    /\ splitter = LeaveOneOut
    /\ n_samples = 0
    /\ emitted = <<>>
    /\ HarnessIdle

NextTemper == TruncateCell \/ SplitCell

SpecTemper == InitTemper /\ [][NextTemper]_vars


\* ------------------------------------ tables with other row labels --
\* The row labels a table of n rows can carry after rows were filtered out
\* of a longer table (labels are kept) or the table was re-sorted (labels
\* move with their rows): n distinct labels out of 0..n, in any order.
IndexChoices(n) ==
    {ix \in [1..n -> 0..n] : \A i, j \in 1..n : i # j => ix[i] # ix[j]}

\* The table d carrying the row labels index.
Relabelled(d, index) == [d EXCEPT !.index = index]

\* cross_validation's data argument is any DataFrame: the notebook's
\* functions are about to be called on a table with any row labels.
InitRelabelled ==
    /\ \E n \in 1..MaxRelabelRows : \E targets \in TargetColumns(n) :
       \E index \in IndexChoices(n) :
          data = Relabelled(ReadExcel(TemperColumn(n), targets), index)
    /\ pc = "idle"
    /\ fold = 0
    /\ ret = Raised("None")
    /\ splitter = LeaveOneOut
    /\ n_samples = 0
    /\ emitted = <<>>
    /\ HarnessIdle

SpecRelabelled == InitRelabelled /\ [][Next]_vars


\* ================================================================ claims ==
\* The test index set of an emitted pair, and its train index set.
TestSet(pair) == Range(pair[2])

TrainSet(pair) == Range(pair[1])

\* The standalone strategy is KFold(k) with 2 <= k <= n, n >= 2.
ValidKFold ==
    /\ splitter.kind = "KFold"
    /\ n_samples >= 2
    /\ 2 <= splitter.n_splits
    /\ splitter.n_splits <= n_samples

\* C1: for every row count N >= 2 and fold count k with 2 <= k <= N,
\* KFold(k) does not raise and, once its generator is exhausted, has
\* emitted exactly k partitions whose test index sets are pairwise disjoint
\* and whose union is exactly {0..N-1}.
C1_KFoldPartitions ==
    ValidKFold =>
        /\ pc # "raised"
        /\ Len(emitted) <= splitter.n_splits
        /\ \A i, j \in DOMAIN emitted :
              i # j => TestSet(emitted[i]) \cap TestSet(emitted[j]) = {}
        /\ pc = "exhausted" =>
              /\ Len(emitted) = splitter.n_splits
              /\ UNION {TestSet(emitted[i]) : i \in DOMAIN emitted}
                    = 0..(n_samples - 1)

\* C1 witness: an exhausted KFold whose folds cannot all have the same size.
C1_Witness ==
    /\ ValidKFold
    /\ pc = "exhausted"
    /\ n_samples % splitter.n_splits # 0
    /\ Len(emitted) = splitter.n_splits

\* What C2 says of LeaveOneOut once it is exhausted: N partitions, partition
\* i with test = {i} and train = all other indices.
LeaveOneOutComplete ==
    /\ Len(emitted) = n_samples
    /\ \A f \in DOMAIN emitted :
          /\ emitted[f][2] = <<f - 1>>
          /\ TrainSet(emitted[f]) = (0..(n_samples - 1)) \ {f - 1}
          /\ Len(emitted[f][1]) = n_samples - 1

\* C2 as stated: for every row count N >= 1, LeaveOneOut emits exactly N
\* partitions, partition i having test = {i} and train = all other indices.
C2_Original ==
    (splitter.kind = "LeaveOneOut" /\ n_samples >= 1) =>
        /\ pc # "raised"
        /\ pc = "exhausted" => LeaveOneOutComplete

\* C2 amended: for every row count N >= 2, LeaveOneOut emits exactly N
\* partitions, partition i having test = {i} and train = all other indices;
\* on a single row (N = 1) the split raises ValueError and emits nothing.
C2_LeaveOneOut ==
    splitter.kind = "LeaveOneOut" =>
        /\ n_samples >= 2 =>
              /\ pc # "raised"
              /\ pc = "exhausted" => LeaveOneOutComplete
        /\ n_samples = 1 =>
              /\ pc # "exhausted"
              /\ emitted = <<>>
              /\ pc = "raised" => ret.exc = "ValueError"

\* C2 witness: LeaveOneOut exhausted over at least three rows.
C2_Witness ==
    /\ splitter.kind = "LeaveOneOut"
    /\ pc = "exhausted"
    /\ n_samples >= 3
    /\ Len(emitted) = n_samples


\* The strategy names that are cross-validation strategies.
CVNames == {"loocv", "5foldcv", "15foldcv", "20foldcv"}

\* The rows a sequence of predictions was made for.
Rows(preds) == [p \in DOMAIN preds |-> preds[p].row]

\* C3: cross_validation returns y_true and y_pred of equal length;
\* position p of y_pred is the prediction for the very row whose target is
\* at position p of y_true; every row appears exactly once; the rows come
\* partition after partition in the strategy's emission order, each
\* partition in its test-row order; for LeaveOneOut that is the original
\* row order.
C3_AlignedConcatenation ==
    (pc \in {"cv_returned", "done"}) =>
        /\ ret.exc = "None"
        /\ Len(ret.y_true) = Len(ret.y_pred)
        /\ \A p \in DOMAIN ret.y_pred :
              ret.y_true[p] = data.TYS[ret.y_pred[p].row + 1]
        /\ Len(ret.y_pred) = NRows(data)
        /\ {ret.y_pred[p].row : p \in DOMAIN ret.y_pred} = 0..(NRows(data) - 1)
        /\ validator \in CVNames =>
              /\ Rows(ret.y_pred) =
                    Concatenate(IterTestIndices(VALIDATORS[validator], NRows(data)))
              /\ Len(y_pred) = Len(IterTestIndices(VALIDATORS[validator], NRows(data)))
              /\ \A f \in DOMAIN y_pred :
                    Rows(y_pred[f]) =
                        IterTestIndices(VALIDATORS[validator], NRows(data))[f]
        /\ validator = "loocv" =>
              /\ Rows(ret.y_pred) = Arange(NRows(data))
              /\ ret.y_true = data.TYS

\* C3 witness: a 5-fold call has returned on a table whose folds differ in
\* size.
C3_Witness ==
    /\ pc = "cv_returned"
    /\ validator = "5foldcv"
    /\ NRows(data) % 5 # 0
    /\ Len(ret.y_pred) = NRows(data)

\* C4: in every partition fitted and predicted on under a cross-validation
\* strategy the train rows and the test rows are disjoint: no prediction is
\* made for a row by a forest fitted on that row; only "insample" makes one
\* fit, on all rows, and predicts all rows with it.
C4_TrainTestDisjoint ==
    /\ validator \in CVNames =>
          \A f \in DOMAIN y_pred : \A i, j \in DOMAIN y_pred[f] :
              y_pred[f][i].row \notin Range(y_pred[f][j].trained_X)
    /\ (validator = "insample" /\ pc \in {"cv_returned", "done"}) =>
          /\ fits = 1
          /\ Rows(ret.y_pred) = Arange(NRows(data))
          /\ \A p \in DOMAIN ret.y_pred :
                ret.y_pred[p].trained_X = Arange(NRows(data))

\* C4 witness: leave-one-out has fitted and predicted at least two
\* partitions.
C4_Witness ==
    /\ validator = "loocv"
    /\ Len(y_pred) >= 2
    /\ fits >= 2

\* C5: the forest is fitted anew for every partition: the predictions of
\* partition f come from a forest fitted on exactly the train rows (and
\* their targets) of partition f with the seed, one fit per partition, and
\* after the fit the one forest object holds nothing of earlier partitions.
C5_RefitPerPartition ==
    validator \in CVNames =>
        /\ fits = Len(y_pred)
        /\ \A f \in DOMAIN y_pred : \A i \in DOMAIN y_pred[f] :
              LET train == Split(VALIDATORS[validator], NRows(data))[f][1]
              IN  /\ y_pred[f][i].trained_X = train
                  /\ y_pred[f][i].trained_y =
                        [k \in DOMAIN train |-> data.TYS[train[k] + 1]]
                  /\ y_pred[f][i].random_state = random_state
        /\ fits > 0 =>
              random_forest.trained_X =
                  Split(VALIDATORS[validator], NRows(data))[fits][1]

\* C5 witness: the third partition of a 5-fold call has been fitted with
\* the forest object that fitted the first two.
C5_Witness ==
    /\ validator = "5foldcv"
    /\ pc = "cv_loop"
    /\ fits = 3
    /\ Len(y_pred) = 3


\* A sequence is a prefix of another.
IsPrefix(a, b) == Len(a) <= Len(b) /\ a = SubSeq(b, 1, Len(a))

\* A score is the score of the pair cross_validation returns under strategy
\* s: the targets and predictions of all rows, fold after fold, each
\* prediction coming from a forest that was not fitted on the row.
IsScoreOf(score, s) ==
    /\ Rows(score.y_pred) = Concatenate(IterTestIndices(s, NRows(data)))
    /\ Len(score.y_true) = Len(score.y_pred)
    /\ \A p \in DOMAIN score.y_pred :
          /\ score.y_true[p] = data.TYS[score.y_pred[p].row + 1]
          /\ score.y_pred[p].row \notin Range(score.y_pred[p].trained_X)
    /\ Cardinality({score.y_pred[p].trained_X : p \in DOMAIN score.y_pred})
          = Len(IterTestIndices(s, NRows(data)))

\* A score is the in-sample score: every prediction comes from the one
\* forest fitted on all rows.
IsInSampleScore(score) ==
    /\ score.y_true = data.TYS
    /\ Rows(score.y_pred) = Arange(NRows(data))
    /\ \A p \in DOMAIN score.y_pred :
          score.y_pred[p].trained_X = Arange(NRows(data))

\* C6: calc_R2s calls cross_validation once per strategy, in the order
\* insample, loocv, 5foldcv, 15foldcv, 20foldcv, and returns a dictionary
\* with exactly the five display names, each mapped to the score of that
\* strategy's own pair; the in-sample score has its own key.
C6_CalcR2s ==
    caller = "calc_R2s" =>
        /\ IsPrefix(calls, <<"insample", "loocv", "5foldcv", "15foldcv", "20foldcv">>)
        /\ pc = "done" =>
              /\ calls = <<"insample", "loocv", "5foldcv", "15foldcv", "20foldcv">>
              /\ DOMAIN r2_values =
                    {"In Sample", "Leave One Out CV", "5 Fold CV",
                     "15 Fold CV", "20 Fold CV"}
              /\ IsInSampleScore(r2_values["In Sample"])
              /\ IsScoreOf(r2_values["Leave One Out CV"], LeaveOneOut)
              /\ IsScoreOf(r2_values["5 Fold CV"], KFold(5))
              /\ IsScoreOf(r2_values["15 Fold CV"], KFold(15))
              /\ IsScoreOf(r2_values["20 Fold CV"], KFold(20))

\* C6 witness: calc_R2s has returned its dictionary.
C6_Witness ==
    /\ caller = "calc_R2s"
    /\ pc = "done"
    /\ Cardinality(DOMAIN r2_values) = 5

\* A list of column names names a column the table does not have.
NamesAbsentColumn(cols) == Range(cols) \ data.columns # {}

\* The display name calc_R2s stores a strategy's score under.
DisplayName(v) ==
    validators[CHOOSE i \in DOMAIN validators : validators[i][1] = v][2]

\* C7: a call of cross_validation with "5foldcv", "15foldcv" or "20foldcv"
\* on a table with fewer rows than folds (its x columns all present) ends
\* in the fold-count error, which the code raises as ValueError: it never
\* returns a pair, fits no forest and collects no prediction, and calc_R2s
\* stores no score for that strategy.
C7_FoldCountError ==
    (/\ validator \in {"5foldcv", "15foldcv", "20foldcv"}
     /\ VALIDATORS[validator].n_splits > NRows(data)
     /\ ~NamesAbsentColumn(x_cols)) =>
        /\ pc \in {"cv_loop", "raised"}
        /\ pc = "raised" => ret.exc = "ValueError"
        /\ ret.y_true = <<>> /\ ret.y_pred = <<>>
        /\ fits = 0 /\ fold = 0
        /\ y_true = <<>> /\ y_pred = <<>>
        /\ ~random_forest.fitted
        /\ caller = "calc_R2s" => DisplayName(validator) \notin DOMAIN r2_values

\* C7 witness: "15foldcv" on 14 rows has raised ValueError.
C7_Witness ==
    /\ validator = "15foldcv"
    /\ NRows(data) = 14
    /\ pc = "raised"
    /\ ret.exc = "ValueError"

\* C8: a call of cross_validation whose x_cols names a column absent from
\* the table raises the column error (KeyError in the code) before any
\* forest is fitted and before any partition is produced, and leaves the
\* table as it was before the call.
C8_MissingColumn ==
    /\ [](ret.exc = "KeyError" =>
            /\ pc = "raised"
            /\ fits = 0 /\ fold = 0
            /\ ~random_forest.fitted
            /\ y_true = <<>> /\ y_pred = <<>>)
    /\ [][(pc = "idle" /\ pc' # "idle" /\ NamesAbsentColumn(x_cols')) =>
            /\ pc' = "raised"
            /\ ret'.exc = "KeyError"
            /\ data' = data]_vars

\* C8 witness: after the temper cells ran, a call naming a column that
\* does not exist has raised KeyError.
C8_Witness ==
    /\ pc = "raised"
    /\ ret.exc = "KeyError"
    /\ x_cols = <<"nonexistent_col">>
    /\ "temper_truncated" \in data.columns


\* The decimal digits in order: the character of the integer d is
\* DigitChars[d + 1].
DigitChars == <<"0", "1", "2", "3", "4", "5", "6", "7", "8", "9">>

\* The first two characters of a code (the whole code when it is shorter).
FirstTwo(t) == [i \in 1..(IF Len(t) < 2 THEN Len(t) ELSE 2) |-> t[i]]

\* What C9 says of the derived values of one row with the non-empty temper
\* code t.
DerivedAsClaimed(i) ==
    LET t == data.temper[i]
    IN  /\ "temper_truncated" \in data.columns =>
              data.temper_truncated[i] = (IF t = <<"O">> THEN <<"O">> ELSE FirstTwo(t))
        /\ "temper_c0" \in data.columns => data.temper_c0[i] = <<t[1]>>
        /\ "temper_c1" \in data.columns =>
              IF Len(t) >= 2
              THEN /\ data.temper_c1[i] \in 0..9
                   /\ DigitChars[data.temper_c1[i] + 1] = t[2]
              ELSE data.temper_c1[i] = 1
        /\ (Len(t) >= 2 => t[2] \in Range(DigitChars)) =>
              /\ ret.exc = "None"
              /\ "temper_c0" \in data.columns <=> "temper_c1" \in data.columns
        /\ t = <<"T", "6", "1", "4">> =>
              /\ "temper_truncated" \in data.columns =>
                    data.temper_truncated[i] = <<"T", "6">>
              /\ "temper_c1" \in data.columns => data.temper_c1[i] = 6
        /\ t = <<"O">> =>
              /\ "temper_c0" \in data.columns => data.temper_c0[i] = <<"O">>
              /\ "temper_c1" \in data.columns => data.temper_c1[i] = 1

\* C9: for every non-empty temper code t (its second character, when it
\* has one, a digit where temper_c1 is concerned): temper_truncated is the
\* first two characters of t, "O" unchanged; temper_c0 is the first
\* character; temper_c1 is the integer of the second character when there
\* is one and 1 otherwise; and the cells that store these columns never
\* change the temper column.
C9_DerivedColumns ==
    /\ [](\A i \in DOMAIN data.temper :
             data.temper[i] # <<>> => DerivedAsClaimed(i))
    /\ [][data'.temper = data.temper /\ data'.TYS = data.TYS
          /\ data'.index = data.index /\ data.columns \subseteq data'.columns]_vars

\* C9 witness: both cells ran on temper "T614".
C9_Witness ==
    /\ data.temper = << <<"T", "6", "1", "4">> >>
    /\ {"temper_truncated", "temper_c0", "temper_c1"} \subseteq data.columns
    /\ data.temper_truncated = << <<"T", "6">> >>
    /\ data.temper_c1 = <<6>>

\* A temper code is malformed: empty, or its second character is no digit.
Malformed(t) == t = <<>> \/ (Len(t) >= 2 /\ t[2] \notin Range(DigitChars))

\* C10 as stated: a malformed temper code makes each derived-column
\* computation fail, so none of temper_truncated, temper_c0 and temper_c1
\* is ever stored for a table holding a malformed code.
C10_MalformedFailsFast ==
    (\E i \in DOMAIN data.temper : Malformed(data.temper[i])) =>
        data.columns \cap {"temper_truncated", "temper_c0", "temper_c1"} = {}


\* The targets of the rows at the given positions.
TargetsAt(positions) == [k \in DOMAIN positions |-> data.TYS[positions[k] + 1]]

\* C11 as stated: for every record table, whatever its row labels, the
\* training features and targets, the test features and the y_true values
\* of partition f are those of the rows at the positions train_index and
\* test_index the splitter emitted, and the lookup of the rows never fails
\* on a missing label.
C11_RowsByPosition ==
    (validator \in CVNames /\ ~NamesAbsentColumn(x_cols)) =>
        /\ ret.exc # "KeyError"
        /\ \A f \in DOMAIN y_true :
              y_true[f] = TargetsAt(Split(VALIDATORS[validator], NRows(data))[f][2])
        /\ \A f \in DOMAIN y_pred : \A i \in DOMAIN y_pred[f] :
              LET pair == Split(VALIDATORS[validator], NRows(data))[f]
              IN  /\ y_pred[f][i].row = pair[2][i]
                  /\ y_pred[f][i].trained_X = pair[1]
                  /\ y_pred[f][i].trained_y = TargetsAt(pair[1])

=============================================================================
